---- MODULE Spec2Model ----
(***************************************************************************)
(* Session / token-lifecycle manager of the SportsHub front-end            *)
(* (src/scripts.js, authService + apiService + handlers, lines 1-1185).    *)
(*                                                                         *)
(* One step of the model is one event-loop task of the browser together    *)
(* with the promise continuations (microtasks) it triggers: a user event,  *)
(* a timer callback, a network completion.  Inside a step the code runs    *)
(* sequentially on a world record w; operators named after the source      *)
(* functions map a world to the world after the call.                      *)
(***************************************************************************)
EXTENDS Integers, Sequences, FiniteSets, TLC

VARIABLES
    localStorage,   \* [accessToken, refreshToken, sportsHubUser]
    state,          \* [currentUser, isTokenRefreshing, tokenRefreshPromise, tokenRefreshTimer]
    timers,         \* pending setTimeout wake-ups of the refresh scheduler: set of [id, due]
    calls,          \* apiService.request invocations: slot -> call record
    view,           \* "auth" (login forms shown) or "app"
    now,            \* Date.now(), milliseconds since the page's epoch
    loggedOut,      \* history: handleLogout ran and no login succeeded since
    ev              \* history: what the last step did

vars == <<localStorage, state, timers, calls, view, now, loggedOut, ev>>

(***************************************************************************)
(* Bounds of the model.                                                    *)
(***************************************************************************)
MaxCalls == 2        \* apiService.request invocations alive at once
MaxTick  == 1        \* the clock advances at most this many times
TickMs   == 180000   \* resolution of the clock
CountCap == 5        \* per-call network-attempt counter saturates here
LoopCap  == 2        \* per-call renewal / replay counters saturate here

Slots == 1..MaxCalls

(***************************************************************************)
(* JWT_CONFIG                                                              *)
(***************************************************************************)
TOKEN_EXPIRY_BUFFER == 2 * 60 * 1000
MAX_RETRY_ATTEMPTS  == 3

(***************************************************************************)
(* Endpoints.                                                              *)
(***************************************************************************)
EP_LOGIN   == "/api/login"
EP_REGISTER == "/api/register"
EP_REFRESH == "/api/auth/refresh"
EP_LOGOUT  == "/api/logout"
EP_EVENTS  == "/api/events"

publicEndpoints == {"/api/login", "/api/register", "/api/auth/refresh"}

(***************************************************************************)
(* Credentials.  An access credential is the sequence of its dot-separated *)
(* segments (token.split('.')); <<>> is the absent / empty credential.     *)
(* The middle segment decodes (atob + JSON.parse) to a payload or throws.  *)
(***************************************************************************)
NoToken  == << >>
T120     == <<"hdr", "exp120", "sig">>     \* payload {exp: 120}
T300     == <<"hdr", "exp300", "sig">>     \* payload {exp: 300}
TNoExp   == <<"hdr", "noexp", "sig">>      \* payload {} without exp
TGarbage == <<"hdr", "garbage", "sig">>    \* middle segment is not base64 JSON
TTwoSeg  == <<"hdr", "sig">>               \* not three segments

ServerAccessTokens == {T120, T300, TNoExp, TGarbage, TTwoSeg, NoToken}
LoginRefreshTokens == {"", "r1"}
RenewRefreshTokens == {"", "r2"}

NoPayload == [ok |-> FALSE, exp |-> 0]

\* JSON.parse(atob(segment)); ok = FALSE stands for the thrown exception,
\* exp = 0 for a payload whose exp is absent (or falsy).
DecodeSegment(seg) ==
    CASE seg = "exp120" -> [ok |-> TRUE, exp |-> 120]
      [] seg = "exp300" -> [ok |-> TRUE, exp |-> 300]
      [] seg = "noexp"  -> [ok |-> TRUE, exp |-> 0]
      [] OTHER          -> NoPayload

isValidTokenFormat(token) == token # NoToken /\ Len(token) = 3

getTokenPayload(token) ==
    IF ~isValidTokenFormat(token) THEN NoPayload ELSE DecodeSegment(token[2])

(***************************************************************************)
(* Call records.                                                           *)
(*   pc   "idle" | "fetch" (network call outstanding) | "delay" (waiting   *)
(*        RETRY_DELAY before the next attempt) | "await" (awaiting the     *)
(*        promise of refreshToken()) | "ret" (returned, the caller's       *)
(*        continuation has not run yet)                                    *)
(*   ep   endpoint, rc retryCount, body refresh credential in the body,    *)
(*        aw the renewal (slot) whose promise is awaited, res the result   *)
(*   history: tf every network attempt so far failed at the transport      *)
(*        level, nf the number of attempts while tf holds (0 afterwards),  *)
(*        nr refreshToken() calls made, np replays, obs the marker as seen *)
(*        when the renewal outcome was delivered, old the call is a        *)
(*        renewal that was outstanding when handleLogout ended the session *)
(* A call that has resolved leaves its slot; its record is kept in ev.fin  *)
(* for the step in which it resolved.                                      *)
(***************************************************************************)
IdleCall ==
    [pc |-> "idle", ep |-> "", rc |-> 0, body |-> "",
     aw |-> 0, res |-> "", nf |-> 0, tf |-> TRUE, nr |-> 0, np |-> 0,
     obs |-> FALSE, old |-> FALSE]

R_OK      == "ok"
R_AUTHREQ == "Authentication required."
R_EXPIRED == "Session expired."
R_NETERR  == "Failed to fetch"          \* error.message of the TypeError
R_HTTPERR == "HTTP error"               \* data.message or HTTP status text

Sat(n, cap) == IF n >= cap THEN cap ELSE n + 1


(***************************************************************************)
(* The world a step works on.  ovf is set when the step needs more call    *)
(* slots than the model has, and such a step is not taken.                 *)
(***************************************************************************)
\* history of one step: op the event, nrt the refreshToken() invocations, sched
\* the scheduleTokenRefresh call, fin the calls resolved, sent the fetches issued
\* ([ep, auth, body]: endpoint, the credential of the Authorization header and
\* the refresh credential in the body), term whether handleAuthExpiry ran, ren
\* the renewal that settled (its outcome, the accessToken and refreshToken of
\* the response and the store, timers and view at the moment its promise
\* resolved), norc the store, timers, view and fetches at the return of a
\* refreshToken() that found no refresh credential, ended the program state
\* right after each session end (handleAuthExpiry, the teardown of handleLogout)
\* together with the number of wake-ups that were pending before it, got the
\* result.data handleLogin received with a success result
NoEvent(op) ==
    [op |-> op, nrt |-> 0, sched |-> << >>, fin |-> {}, sent |-> {},
     term |-> FALSE, ren |-> << >>, norc |-> << >>, ended |-> {}, got |-> << >>]

World(op) ==
    [ls |-> localStorage, st |-> state, timers |-> timers, calls |-> calls,
     view |-> view, now |-> now, lo |-> loggedOut, ev |-> NoEvent(op),
     ovf |-> FALSE]

Commit(w) ==
    /\ ~w.ovf
    /\ localStorage' = w.ls
    /\ state' = w.st
    /\ timers' = w.timers
    /\ calls' = w.calls
    /\ view' = w.view
    /\ loggedOut' = w.lo
    /\ ev' = w.ev

FreeSlots(w) == {c \in Slots : w.calls[c].pc = "idle"}
NewSlot(w) == CHOOSE c \in FreeSlots(w) : \A d \in FreeSlots(w) : c <= d

\* setTimeout returns an id no live handle holds
NewTimerId(w) ==
    LET used == {t.id : t \in w.timers} \cup {w.st.tokenRefreshTimer}
    IN CHOOSE i \in 1..(Cardinality(used) + 1) :
           i \notin used /\ \A j \in 1..(Cardinality(used) + 1) : j \notin used => i <= j

clearTimeout(w, id) == [w EXCEPT !.timers = {t \in w.timers : t.id # id}]

\* the call returned res; its caller's continuation runs later in the step
RetCall(call, res) ==
    [IdleCall EXCEPT !.pc = "ret", !.ep = call.ep, !.res = res, !.nf = call.nf,
                     !.tf = call.tf, !.nr = call.nr, !.np = call.np, !.obs = call.obs,
                     !.old = call.old]

\* call c has resolved: the slot is free, the record goes to ev.fin
finish(w, c, res) ==
    [w EXCEPT !.calls[c] = IdleCall,
              !.ev.fin = @ \cup {[RetCall(w.calls[c], res) EXCEPT !.pc = "done"]}]

(***************************************************************************)
(* authService.clearData / ui.showAuth / authService.handleAuthExpiry      *)
(***************************************************************************)
\* variant: the pending wake-up is not cancelled
clearData_keepTimer(w) ==
    LET w1 == [w EXCEPT !.ls = [accessToken |-> NoToken, refreshToken |-> "",
                                 sportsHubUser |-> ""]]
    IN [w1 EXCEPT !.st.currentUser = "",
                  !.st.isTokenRefreshing = FALSE,
                  !.st.tokenRefreshPromise = 0]

\* variant: the shared promise is kept
clearData_keepPromise(w) ==
    LET w1 == [w EXCEPT !.ls = [accessToken |-> NoToken, refreshToken |-> "",
                                 sportsHubUser |-> ""]]
        w2 == clearTimeout(w1, w1.st.tokenRefreshTimer)
    IN [w2 EXCEPT !.st.currentUser = "",
                  !.st.isTokenRefreshing = FALSE]

\* variant: the in-flight marker is flipped instead of cleared
clearData_flipMarker(w) ==
    LET w1 == [w EXCEPT !.ls = [accessToken |-> NoToken, refreshToken |-> "",
                                 sportsHubUser |-> ""]]
        w2 == clearTimeout(w1, w1.st.tokenRefreshTimer)
    IN [w2 EXCEPT !.st.currentUser = "",
                  !.st.isTokenRefreshing = ~@,
                  !.st.tokenRefreshPromise = 0]

clearData(w) ==
    LET w1 == [w EXCEPT !.ls = [accessToken |-> NoToken, refreshToken |-> "",
                                 sportsHubUser |-> ""]]
        w2 == clearTimeout(w1, w1.st.tokenRefreshTimer)
    IN [w2 EXCEPT !.st.currentUser = "",
                  !.st.isTokenRefreshing = FALSE,
                  !.st.tokenRefreshPromise = 0]

showAuth(w) == [w EXCEPT !.view = "auth"]
showApp(w) == [w EXCEPT !.view = "app"]

\* the session end that turned w0 into w1 is noted in the history of the step
SessionEnd(w0, w1) ==
    [w1 EXCEPT !.ev.ended = @ \cup {[ls |-> w1.ls, st |-> w1.st, timers |-> w1.timers,
                                      view |-> w1.view,
                                      pending |-> Cardinality(w0.timers)]}]

\* variant: the login view is requested but the session data is kept
handleAuthExpiry_noClear(w) == SessionEnd(w, [showAuth(w) EXCEPT !.ev.term = TRUE])

handleAuthExpiry(w) == SessionEnd(w, [showAuth(clearData(w)) EXCEPT !.ev.term = TRUE])

(***************************************************************************)
(* apiService.request, the part that runs synchronously up to the fetch:   *)
(* call c either returns 'Authentication required.' or has its network     *)
(* call outstanding.                                                       *)
(***************************************************************************)
\* variant: a missing credential is treated as an expired session
request_expiresSession(w, c, endpoint, body, retryCount) ==
    LET old == w.calls[c]
        token == w.ls.accessToken
        Authorization == IF endpoint \notin publicEndpoints THEN token ELSE NoToken
    IN IF endpoint \notin publicEndpoints /\ token = NoToken
       THEN [handleAuthExpiry(w) EXCEPT
                !.calls[c] = RetCall([old EXCEPT !.ep = endpoint], R_AUTHREQ)]
       ELSE [w EXCEPT !.calls[c] =
                [old EXCEPT !.pc = "fetch", !.ep = endpoint, !.rc = retryCount,
                            !.body = body, !.aw = 0,
                            !.nf = IF old.tf THEN Sat(old.nf, CountCap) ELSE 0],
                      !.ev.sent = @ \cup {[ep |-> endpoint, auth |-> Authorization,
                                            body |-> body]}]

request(w, c, endpoint, body, retryCount) ==
    LET old == w.calls[c]
        token == w.ls.accessToken
        Authorization == IF endpoint \notin publicEndpoints THEN token ELSE NoToken
    IN IF endpoint \notin publicEndpoints /\ token = NoToken
       THEN [w EXCEPT !.calls[c] = RetCall([old EXCEPT !.ep = endpoint], R_AUTHREQ)]
       ELSE [w EXCEPT !.calls[c] =
                [old EXCEPT !.pc = "fetch", !.ep = endpoint, !.rc = retryCount,
                            !.body = body, !.aw = 0,
                            !.nf = IF old.tf THEN Sat(old.nf, CountCap) ELSE 0],
                      !.ev.sent = @ \cup {[ep |-> endpoint, auth |-> Authorization,
                                            body |-> body]}]

(***************************************************************************)
(* authService.refreshToken.  caller is the call awaiting the result, 0    *)
(* when the result is dropped (timer callback, scheduleTokenRefresh).      *)
(***************************************************************************)
\* what a caller can observe at this point of the step
Snapshot(w) == [ls |-> w.ls, timers |-> w.timers, view |-> w.view, sent |-> w.ev.sent]

AwaitRenewal(w, caller, r) ==
    IF caller = 0 THEN w
    ELSE [w EXCEPT !.calls[caller].pc = "await", !.calls[caller].aw = r]

\* the caller gets a falsy result without waiting for the network
RefreshedFalsy(w, caller) ==
    IF caller = 0 THEN w
    ELSE [w EXCEPT !.calls[caller] =
              RetCall([w.calls[caller] EXCEPT !.obs = w.st.isTokenRefreshing], R_EXPIRED)]

refreshToken(w, caller) ==
    LET w0 == [w EXCEPT !.ev.nrt = @ + 1]
        rt == w0.ls.refreshToken
    IN IF w0.st.isTokenRefreshing
       THEN IF w0.st.tokenRefreshPromise # 0
            THEN AwaitRenewal(w0, caller, w0.st.tokenRefreshPromise)
            ELSE RefreshedFalsy(w0, caller)
       ELSE IF rt = ""
       THEN LET w1 == handleAuthExpiry(w0)
            IN RefreshedFalsy([w1 EXCEPT !.ev.norc = <<Snapshot(w1)>>], caller)
       ELSE IF FreeSlots(w0) = {}
       THEN [w0 EXCEPT !.ovf = TRUE]
       ELSE LET r == NewSlot(w0)
                w1 == [w0 EXCEPT !.st.isTokenRefreshing = TRUE, !.calls[r] = IdleCall]
                w2 == request(w1, r, EP_REFRESH, rt, 0)
                w3 == [w2 EXCEPT !.st.tokenRefreshPromise = r]
            IN AwaitRenewal(w3, caller, r)

(***************************************************************************)
(* authService.scheduleTokenRefresh / authService.saveTokens               *)
(***************************************************************************)
\* variant: the previous wake-up is not cancelled
scheduleTokenRefresh_noCancel(w, token) ==
    LET w1 == [w EXCEPT
                  !.ev.sched = <<[token |-> token, pending |-> Cardinality(w.timers)]>>]
        payload == getTokenPayload(token)
        refreshTime == payload.exp * 1000 - TOKEN_EXPIRY_BUFFER
        id == NewTimerId(w1)
    IN IF ~payload.ok \/ payload.exp = 0 THEN w1
       ELSE IF refreshTime > w1.now
       THEN [w1 EXCEPT !.timers = @ \cup {[id |-> id, due |-> refreshTime]},
                       !.st.tokenRefreshTimer = id]
       ELSE refreshToken(w1, 0)

\* variant: the buffer is added to the expiry instead of subtracted
scheduleTokenRefresh_lateWake(w, token) ==
    LET w1 == [clearTimeout(w, w.st.tokenRefreshTimer) EXCEPT
                  !.ev.sched = <<[token |-> token, pending |-> Cardinality(w.timers)]>>]
        payload == getTokenPayload(token)
        refreshTime == payload.exp * 1000 + TOKEN_EXPIRY_BUFFER
        id == NewTimerId(w1)
    IN IF ~payload.ok \/ payload.exp = 0 THEN w1
       ELSE IF refreshTime > w1.now
       THEN [w1 EXCEPT !.timers = @ \cup {[id |-> id, due |-> refreshTime]},
                       !.st.tokenRefreshTimer = id]
       ELSE refreshToken(w1, 0)

\* variant: only an undecodable credential is ignored, a payload without exp
\* counts as expired
scheduleTokenRefresh_noExpCheck(w, token) ==
    LET w1 == [clearTimeout(w, w.st.tokenRefreshTimer) EXCEPT
                  !.ev.sched = <<[token |-> token, pending |-> Cardinality(w.timers)]>>]
        payload == getTokenPayload(token)
        refreshTime == payload.exp * 1000 - TOKEN_EXPIRY_BUFFER
        id == NewTimerId(w1)
    IN IF ~payload.ok THEN w1
       ELSE IF refreshTime > w1.now
       THEN [w1 EXCEPT !.timers = @ \cup {[id |-> id, due |-> refreshTime]},
                       !.st.tokenRefreshTimer = id]
       ELSE refreshToken(w1, 0)

scheduleTokenRefresh(w, token) ==
    LET w1 == [clearTimeout(w, w.st.tokenRefreshTimer) EXCEPT
                  !.ev.sched = <<[token |-> token, pending |-> Cardinality(w.timers)]>>]
        payload == getTokenPayload(token)
        expiryTime == payload.exp * 1000
        refreshTime == expiryTime - TOKEN_EXPIRY_BUFFER
        delay == refreshTime - w1.now
        id == NewTimerId(w1)
    IN IF ~payload.ok \/ payload.exp = 0 THEN w1
       ELSE IF refreshTime > w1.now
       THEN [w1 EXCEPT !.timers = @ \cup {[id |-> id, due |-> w1.now + delay]},
                       !.st.tokenRefreshTimer = id]
       ELSE refreshToken(w1, 0)

\* variant: the scheduler is armed but the access credential is not written
saveTokens_notStored(w, accessToken, refreshToken_) ==
    IF ~isValidTokenFormat(accessToken) THEN w
    ELSE scheduleTokenRefresh(w, accessToken)

\* variant: the refresh credential of the response is stored even when absent
saveTokens_dropRefresh(w, accessToken, refreshToken_) ==
    IF ~isValidTokenFormat(accessToken) THEN w
    ELSE scheduleTokenRefresh([w EXCEPT !.ls.accessToken = accessToken,
                                        !.ls.refreshToken = refreshToken_],
                              accessToken)

saveTokens(w, accessToken, refreshToken_) ==
    IF ~isValidTokenFormat(accessToken) THEN w
    ELSE LET w1 == [w EXCEPT !.ls.accessToken = accessToken]
             w2 == IF refreshToken_ # "" THEN [w1 EXCEPT !.ls.refreshToken = refreshToken_]
                   ELSE w1
         IN scheduleTokenRefresh(w2, accessToken)


(***************************************************************************)
(* Continuations of the callers of apiService.request.                     *)
(***************************************************************************)
\* handlers.handleLogin after the await (persistence.save included)
afterLogin(w, res, data) ==
    IF res # R_OK THEN w
    ELSE LET w1 == saveTokens(w, data.accessToken, data.refreshToken)
             w2 == [w1 EXCEPT !.st.currentUser = data.user]
             w3 == IF w2.st.currentUser # ""
                   THEN [w2 EXCEPT !.ls.sportsHubUser = w2.st.currentUser] ELSE w2
         IN [showApp(w3) EXCEPT !.lo = FALSE, !.ev.got = <<data>>]

\* the renewals outstanding at a logout belong to the session that ends
MarkOld(w) ==
    [w EXCEPT !.calls = [c \in Slots |->
                           IF w.calls[c].ep = EP_REFRESH /\ w.calls[c].pc \in {"fetch", "delay"}
                           THEN [w.calls[c] EXCEPT !.old = TRUE] ELSE w.calls[c]]]

\* handlers.handleLogout after the await
afterLogout(w) == SessionEnd(w, [showAuth(clearData(MarkOld(w))) EXCEPT !.lo = TRUE])

\* continuations of the calls that returned without a network completion
drain(w) ==
    LET rets == {c \in Slots : w.calls[c].pc = "ret"}
        w1 == [w EXCEPT !.calls = [c \in Slots |->
                                     IF c \in rets THEN IdleCall ELSE w.calls[c]],
                        !.ev.fin = @ \cup {[w.calls[c] EXCEPT !.pc = "done"] : c \in rets}]
    IN IF \E c \in rets : w.calls[c].ep = EP_LOGOUT THEN afterLogout(w1) ELSE w1

\* a request awaiting refreshToken() gets the outcome (lines 298-304)
resume(w, c, refreshed) ==
    LET call == [w.calls[c] EXCEPT !.obs = w.st.isTokenRefreshing]
    IN IF refreshed
       THEN request([w EXCEPT !.calls[c] = [call EXCEPT !.np = Sat(@, LoopCap)]],
                    c, call.ep, call.body, 0)
       ELSE [w EXCEPT !.calls[c] = RetCall(call, R_EXPIRED)]

\* the requests cs awaiting one renewal continue one after the other
RECURSIVE resumeAll(_, _, _)
resumeAll(w, cs, refreshed) ==
    IF cs = {} THEN w
    ELSE LET c == CHOOSE x \in cs : \A y \in cs : x <= y
         IN resumeAll(resume(w, c, refreshed), cs \ {c}, refreshed)

\* the renewal's promise resolves to ok; at and rt are the accessToken and the
\* refreshToken of the response
Settled(w, ok, data) ==
    [ok |-> ok, at |-> data.accessToken, rt |-> data.refreshToken, ls |-> w.ls,
     timers |-> w.timers, view |-> w.view, term |-> w.ev.term]

\* variant: the .finally handler runs after the awaiting requests continue
renewalSettled_lateFinally(w, r, success, data) ==
    LET w1 == IF success
              THEN saveTokens(w, data.accessToken, data.refreshToken)
              ELSE handleAuthExpiry(w)
        waiters == {c \in Slots : w1.calls[c].pc = "await" /\ w1.calls[c].aw = r}
        w2 == resumeAll(w1, waiters, success)
    IN [w2 EXCEPT !.st.isTokenRefreshing = FALSE,
                  !.st.tokenRefreshPromise = 0,
                  !.ev.ren = <<Settled(w1, success, data)>>]

\* variant: the .catch handler returns false without ending the session
renewalSettled_noExpiry(w, r, success, data) ==
    LET w1 == IF success
              THEN saveTokens(w, data.accessToken, data.refreshToken)
              ELSE w
        w2 == [w1 EXCEPT !.st.isTokenRefreshing = FALSE,
                         !.st.tokenRefreshPromise = 0,
                         !.ev.ren = <<Settled(w1, success, data)>>]
        waiters == {c \in Slots : w2.calls[c].pc = "await" /\ w2.calls[c].aw = r}
    IN resumeAll(w2, waiters, success)

\* the .then / .catch / .finally chain of refreshToken (lines 230-247) and
\* the continuations of every request awaiting renewal r
renewalSettled(w, r, success, data) ==
    LET w1 == IF success
              THEN saveTokens(w, data.accessToken, data.refreshToken)
              ELSE handleAuthExpiry(w)
        w2 == [w1 EXCEPT !.st.isTokenRefreshing = FALSE,
                         !.st.tokenRefreshPromise = 0,
                         !.ev.ren = <<Settled(w1, success, data)>>]
        waiters == {c \in Slots : w2.calls[c].pc = "await" /\ w2.calls[c].aw = r}
    IN resumeAll(w2, waiters, success)

\* call c resolves to res (data is the parsed body of a success)
settle(w, c, res, data) ==
    LET ep == w.calls[c].ep
        w1 == finish(w, c, res)
    IN drain(CASE ep = EP_LOGIN   -> afterLogin(w1, res, data)
               [] ep = EP_LOGOUT  -> afterLogout(w1)
               [] ep = EP_REFRESH -> renewalSettled(w1, c, res = R_OK, data)
               [] OTHER           -> w1)

NoData == [accessToken |-> NoToken, refreshToken |-> "", user |-> ""]

(***************************************************************************)
(* Initial state: first visit, nothing stored, main() showed the login     *)
(* forms.                                                                  *)
(***************************************************************************)
Init ==
    /\ localStorage = [accessToken |-> NoToken, refreshToken |-> "", sportsHubUser |-> ""]
    /\ state = [currentUser |-> "", isTokenRefreshing |-> FALSE,
                tokenRefreshPromise |-> 0, tokenRefreshTimer |-> 0]
    /\ timers = {}
    /\ calls = [c \in Slots |-> IdleCall]
    /\ view = "auth"
    /\ now = 0
    /\ loggedOut = FALSE
    /\ ev = NoEvent("init")

(***************************************************************************)
(* User events.                                                            *)
(***************************************************************************)
StartCall(op, endpoint, body) ==
    LET w == World(op)
    IN /\ FreeSlots(w) # {}
       /\ LET c == NewSlot(w)
          IN Commit(drain(request([w EXCEPT !.calls[c] = IdleCall], c, endpoint, body, 0)))
       /\ now' = now

\* handlers.handleLogin: submit of the login form
Login == view = "auth" /\ StartCall("login", EP_LOGIN, "")

\* handlers.handleRegister: submit of the registration form
Register == view = "auth" /\ StartCall("register", EP_REGISTER, "")

\* handlers.handleLogout: click on a logout button
Logout == view = "app" /\ StartCall("logout", EP_LOGOUT, localStorage.refreshToken)

\* any other authenticated request of the application (eventService etc.)
ApiCall == view = "app" /\ StartCall("api", EP_EVENTS, "")

(***************************************************************************)
(* Network completions of call c (lines 292-321).                          *)
(***************************************************************************)
mayRetry_inclusive(retryCount) == retryCount <= MAX_RETRY_ATTEMPTS

\* the guard of the transport retry (line 314; error.name is 'TypeError' here)
mayRetry(retryCount) == retryCount < MAX_RETRY_ATTEMPTS

\* fetch rejects with a TypeError
NetFail(c) ==
    /\ calls[c].pc = "fetch"
    /\ LET w == World("netfail")
       IN IF mayRetry(calls[c].rc)
          THEN Commit([w EXCEPT !.calls[c].pc = "delay"])
          ELSE Commit(settle(w, c, R_NETERR, NoData))
    /\ now' = now

\* the RETRY_DELAY timer of call c fires
RetryWake(c) ==
    /\ calls[c].pc = "delay"
    /\ LET call == calls[c]
           w1 == request(World("retry"), c, call.ep, call.body, call.rc + 1)
       IN Commit(drain(w1))
    /\ now' = now

\* variant: the renewal is invoked whatever the endpoint
RespondExpired_anyEndpoint(c) ==
    /\ calls[c].pc = "fetch"
    /\ LET w == World("expired")
           w0 == [w EXCEPT !.calls[c].tf = FALSE, !.calls[c].nf = 0]
           w1 == refreshToken([w0 EXCEPT !.calls[c].nr = Sat(@, LoopCap)], c)
       IN Commit(drain(w1))
    /\ now' = now

\* 401 with code TOKEN_EXPIRED
RespondExpired(c) ==
    /\ calls[c].pc = "fetch"
    /\ LET w == World("expired")
           w0 == [w EXCEPT !.calls[c].tf = FALSE, !.calls[c].nf = 0]
       IN IF calls[c].ep \notin publicEndpoints
          THEN LET w1 == refreshToken([w0 EXCEPT !.calls[c].nr = Sat(@, LoopCap)], c)
               IN Commit(drain(w1))
          ELSE Commit(settle(w0, c, R_HTTPERR, NoData))
    /\ now' = now

\* variant: every non-success status ends the session
RespondError_terminates(c) ==
    /\ calls[c].pc = "fetch"
    /\ Commit(settle(handleAuthExpiry([World("error") EXCEPT !.calls[c].tf = FALSE,
                                                             !.calls[c].nf = 0]),
                      c, R_HTTPERR, NoData))
    /\ now' = now

\* any other non-success status, or a body that is not JSON
RespondError(c) ==
    /\ calls[c].pc = "fetch"
    /\ Commit(settle([World("error") EXCEPT !.calls[c].tf = FALSE, !.calls[c].nf = 0], c, R_HTTPERR, NoData))
    /\ now' = now

\* success status; the body of a login or renewal response carries credentials
RespondOk(c) ==
    /\ calls[c].pc = "fetch"
    /\ \E at \in ServerAccessTokens, rt \in LoginRefreshTokens \cup RenewRefreshTokens :
          /\ calls[c].ep = EP_LOGIN => rt \in LoginRefreshTokens
          /\ calls[c].ep = EP_REFRESH => rt \in RenewRefreshTokens
          /\ calls[c].ep \notin {EP_LOGIN, EP_REFRESH} => at = NoToken /\ rt = ""
          /\ LET data == [accessToken |-> at, refreshToken |-> rt,
                          user |-> IF calls[c].ep = EP_LOGIN THEN "u1" ELSE ""]
             IN Commit(settle([World("ok") EXCEPT !.calls[c].tf = FALSE, !.calls[c].nf = 0], c, R_OK, data))
    /\ now' = now

(***************************************************************************)
(* Timer, clock, page load.                                                *)
(***************************************************************************)
\* the wake-up armed by scheduleTokenRefresh fires (line 201)
TimerFire ==
    /\ \E t \in timers :
          /\ now >= t.due
          /\ Commit(drain(refreshToken([World("timer") EXCEPT !.timers = @ \ {t}], 0)))
    /\ now' = now

Tick ==
    /\ now < MaxTick * TickMs
    /\ now' = now + TickMs
    /\ ev' = NoEvent("tick")
    /\ UNCHANGED <<localStorage, state, timers, calls, view, loggedOut>>

\* the page is loaded again: memory is fresh, localStorage persists, main() runs
main(w) ==
    LET w1 == [w EXCEPT !.st.currentUser = w.ls.sportsHubUser]
        accessToken == w1.ls.accessToken
    IN IF accessToken # NoToken /\ w1.st.currentUser # ""
       THEN showApp(scheduleTokenRefresh(w1, accessToken))
       ELSE showAuth(w1)

Reload ==
    /\ LET w == [World("reload") EXCEPT
                    !.st = [currentUser |-> "", isTokenRefreshing |-> FALSE,
                            tokenRefreshPromise |-> 0, tokenRefreshTimer |-> 0],
                    !.timers = {},
                    !.calls = [c \in Slots |-> IdleCall]]
       IN Commit(main(w))
    /\ now' = now

Next ==
    \/ Login
    \/ Register
    \/ Logout
    \/ ApiCall
    \/ \E c \in Slots : NetFail(c)
    \/ \E c \in Slots : RetryWake(c)
    \/ \E c \in Slots : RespondExpired(c)
    \/ \E c \in Slots : RespondError(c)
    \/ \E c \in Slots : RespondOk(c)
    \/ TimerFire
    \/ Tick
    \/ Reload

Spec == Init /\ [][Next]_vars


(***************************************************************************)
(* The specification with the scheduling the event loop guarantees: an     *)
(* outstanding network call completes or fails, an armed retry delay       *)
(* elapses.  Its behaviours are behaviours of Spec.                        *)
(***************************************************************************)
Completes(c) == NetFail(c) \/ RespondExpired(c) \/ RespondError(c) \/ RespondOk(c)

Fairness == \A c \in Slots : WF_vars(Completes(c)) /\ WF_vars(RetryWake(c))

\* the steps a request of the application needs: login, the request, the
\* network completions and retries of every call
NextFair ==
    \/ Login
    \/ ApiCall
    \/ \E c \in Slots : NetFail(c)
    \/ \E c \in Slots : RetryWake(c)
    \/ \E c \in Slots : RespondExpired(c)
    \/ \E c \in Slots : RespondError(c)
    \/ \E c \in Slots : RespondOk(c)

FairSpec == Init /\ [][NextFair]_vars /\ Fairness

(***************************************************************************)
(* The function-based implementation of the same manager (lines 1186-2899: *)
(* saveAuthTokens, refreshTokenIfPossible, apiRequest, init ...).  It is a  *)
(* program of its own with its own globals; under InitB the variable state  *)
(* holds them: [currentUser, tokenRefreshTimer, isRefreshing,               *)
(* refreshPromise].  failedRequestsQueue is never added to and is left out. *)
(* Definitions whose source name is already taken above carry the prefix   *)
(* B_.                                                                      *)
(*   call records: pc "idle" | "pre" (awaiting refreshTokenIfPossible       *)
(*   before the fetch) | "fetch" | "delay" | "await" (awaiting it after a   *)
(*   TOKEN_EXPIRED response) | "ret"; nn counts the fetches of the call to  *)
(*   its endpoint, nr the renewals it started.                              *)
(***************************************************************************)
B_publicEndpoints == {"/api/login", "/api/register", "/api/auth/refresh", "/health"}

B_IdleCall ==
    [pc |-> "idle", ep |-> "", rc |-> 0, body |-> "", aw |-> 0, res |-> "",
     nn |-> 0, nr |-> 0]

B_AUTHREQ == "Authentication required"

B_RetCall(call, res) ==
    [B_IdleCall EXCEPT !.pc = "ret", !.ep = call.ep, !.rc = call.rc, !.res = res,
                       !.nn = call.nn, !.nr = call.nr]

B_finish(w, c, res) ==
    [w EXCEPT !.calls[c] = B_IdleCall,
              !.ev.fin = @ \cup {[B_RetCall(w.calls[c], res) EXCEPT !.pc = "done"]}]

\* currentTime >= payload.exp - BUFFER / 1000; a payload without exp gives NaN
\* and the comparison is false
isTokenExpired(w, token) ==
    LET payload == getTokenPayload(token)
    IN IF ~payload.ok THEN TRUE
       ELSE IF payload.exp = 0 THEN FALSE
       ELSE w.now >= (payload.exp - TOKEN_EXPIRY_BUFFER \div 1000) * 1000

getAccessToken(w) ==
    LET token == w.ls.accessToken
    IN IF token = NoToken THEN NoToken
       ELSE IF isTokenExpired(w, token) THEN NoToken
       ELSE token

clearTokenRefreshTimer(w) ==
    IF w.st.tokenRefreshTimer # 0
    THEN [clearTimeout(w, w.st.tokenRefreshTimer) EXCEPT !.st.tokenRefreshTimer = 0]
    ELSE w

clearAuthData(w) ==
    LET w1 == [w EXCEPT !.ls = [accessToken |-> NoToken, refreshToken |-> "",
                                 sportsHubUser |-> ""]]
        w2 == clearTokenRefreshTimer(w1)
    IN [w2 EXCEPT !.st.currentUser = "",
                  !.st.isRefreshing = FALSE,
                  !.st.refreshPromise = 0]

B_handleAuthExpiry(w) == [showAuth(clearAuthData(w)) EXCEPT !.ev.term = TRUE]

\* no branch for a refresh time that is not in the future: nothing happens then
B_scheduleTokenRefresh(w, token) ==
    LET w1 == [clearTokenRefreshTimer(w) EXCEPT
                  !.ev.sched = <<[token |-> token, pending |-> Cardinality(w.timers)]>>]
        payload == getTokenPayload(token)
        expiry == payload.exp * 1000
        refreshTime == expiry - TOKEN_EXPIRY_BUFFER
        delay == refreshTime - w1.now
        id == NewTimerId(w1)
    IN IF ~payload.ok THEN w1
       ELSE IF payload.exp # 0 /\ refreshTime > w1.now
       THEN [w1 EXCEPT !.timers = @ \cup {[id |-> id, due |-> w1.now + delay]},
                       !.st.tokenRefreshTimer = id]
       ELSE w1

\* saveAuthTokens throws on a credential that is not three segments
saveAuthTokensThrows(accessToken) == ~isValidTokenFormat(accessToken)

saveAuthTokens(w, accessToken, refreshToken_) ==
    LET w1 == [w EXCEPT !.ls.accessToken = accessToken]
        w2 == IF refreshToken_ # "" THEN [w1 EXCEPT !.ls.refreshToken = refreshToken_]
              ELSE w1
    IN B_scheduleTokenRefresh(w2, accessToken)

\* fetch(url, finalOptions): the call is on the network
B_fetch(w, c, Authorization) ==
    [w EXCEPT !.calls[c].pc = "fetch", !.calls[c].aw = 0,
              !.calls[c].nn = Sat(@, CountCap),
              !.ev.sent = @ \cup {[ep |-> w.calls[c].ep, auth |-> Authorization,
                                    body |-> w.calls[c].body]}]

\* the caller of refreshTokenIfPossible gets false: before the fetch (site
\* "pre", line 1494) the request returns; after a TOKEN_EXPIRED response (site
\* "await", lines 1526-1528) it ends the session and returns
B_refused(w, c, site) ==
    IF c = 0 THEN w
    ELSE IF site = "pre"
    THEN [w EXCEPT !.calls[c] = B_RetCall(w.calls[c], B_AUTHREQ)]
    ELSE LET w1 == B_handleAuthExpiry(w)
         IN [w1 EXCEPT !.calls[c] = B_RetCall(w1.calls[c], B_AUTHREQ)]

\* refreshTokenIfPossible, with performTokenRefresh up to its fetch.  caller
\* is the request awaiting the result at site, 0 when the result is dropped.
refreshTokenIfPossible(w, caller, site) ==
    LET w0 == [w EXCEPT !.ev.nrt = @ + 1]
        refreshToken_ == w0.ls.refreshToken
    IN IF w0.st.isRefreshing
       THEN IF w0.st.refreshPromise # 0
            THEN IF caller = 0 THEN w0
                 ELSE [w0 EXCEPT !.calls[caller].pc = site,
                                 !.calls[caller].aw = w0.st.refreshPromise]
            ELSE B_refused(w0, caller, site)
       ELSE IF refreshToken_ = ""
       THEN LET w1 == B_handleAuthExpiry(w0)
            IN B_refused([w1 EXCEPT !.ev.norc = <<Snapshot(w1)>>], caller, site)
       ELSE IF FreeSlots(w0) = {}
       THEN [w0 EXCEPT !.ovf = TRUE]
       ELSE LET r == NewSlot(w0)
                w1 == [w0 EXCEPT !.st.isRefreshing = TRUE,
                                 !.st.refreshPromise = r,
                                 !.calls[r] = [B_IdleCall EXCEPT !.ep = EP_REFRESH,
                                                                 !.body = refreshToken_]]
                w2 == B_fetch(w1, r, NoToken)
            IN IF caller = 0 THEN w2
               ELSE [w2 EXCEPT !.calls[caller].pc = site, !.calls[caller].aw = r,
                               !.calls[caller].nr = Sat(@, CountCap)]

\* apiRequest up to its first suspension
apiRequest(w, c, endpoint, body, retryCount) ==
    LET skipAuth == endpoint \in B_publicEndpoints
        w1 == [w EXCEPT !.calls[c].ep = endpoint, !.calls[c].body = body,
                        !.calls[c].rc = retryCount]
        token == getAccessToken(w1)
    IN IF skipAuth THEN B_fetch(w1, c, NoToken)
       ELSE IF token # NoToken THEN B_fetch(w1, c, token)
       ELSE IF w1.st.currentUser # "" THEN refreshTokenIfPossible(w1, c, "pre")
       ELSE B_fetch(w1, c, NoToken)

\* a request awaiting refreshTokenIfPossible continues with the outcome
B_resume(w, c, refreshed) ==
    LET call == w.calls[c]
    IN IF ~refreshed THEN B_refused(w, c, call.pc)
       ELSE IF call.pc = "pre" THEN B_fetch(w, c, getAccessToken(w))
       ELSE apiRequest(w, c, call.ep, call.body, call.rc + 1)

RECURSIVE B_resumeAll(_, _, _)
B_resumeAll(w, cs, refreshed) ==
    IF cs = {} THEN w
    ELSE LET c == CHOOSE x \in cs : \A y \in cs : x <= y
         IN B_resumeAll(B_resume(w, c, refreshed), cs \ {c}, refreshed)

\* handleLogin after the await (saveData included); saveAuthTokens throwing
\* ends the handler
B_afterLogin(w, res, data) ==
    IF res # R_OK \/ saveAuthTokensThrows(data.accessToken) THEN w
    ELSE LET w1 == saveAuthTokens(w, data.accessToken, data.refreshToken)
             w2 == [w1 EXCEPT !.st.currentUser = data.user]
             w3 == [w2 EXCEPT !.ls.sportsHubUser = w2.st.currentUser]
         IN [showApp(w3) EXCEPT !.lo = FALSE, !.ev.got = <<data>>]

\* handleLogout after the await
B_afterLogout(w) == [showAuth(clearAuthData(w)) EXCEPT !.lo = TRUE]

B_drain(w) ==
    LET rets == {c \in Slots : w.calls[c].pc = "ret"}
        w1 == [w EXCEPT !.calls = [c \in Slots |->
                                     IF c \in rets THEN B_IdleCall ELSE w.calls[c]],
                        !.ev.fin = @ \cup {[w.calls[c] EXCEPT !.pc = "done"] : c \in rets}]
    IN IF \E c \in rets : w.calls[c].ep = EP_LOGOUT THEN B_afterLogout(w1) ELSE w1

\* the rest of performTokenRefresh once its fetch r has an outcome, the
\* finally block of refreshTokenIfPossible and the requests awaiting it
performTokenRefresh(w, r, ok, data) ==
    LET success == ok /\ ~saveAuthTokensThrows(data.accessToken)
        w0 == B_finish(w, r, IF ok THEN R_OK ELSE R_HTTPERR)
        w1 == IF success
              THEN saveAuthTokens(w0, data.accessToken, data.refreshToken)
              ELSE B_handleAuthExpiry(w0)
        w2 == [w1 EXCEPT !.st.isRefreshing = FALSE,
                         !.st.refreshPromise = 0,
                         !.ev.ren = <<Settled(w1, success, data)>>]
        waiters == {c \in Slots : w2.calls[c].pc \in {"pre", "await"} /\ w2.calls[c].aw = r}
    IN B_drain(B_resumeAll(w2, waiters, success))

\* the request c returns res to its caller
B_settle(w, c, res, data) ==
    LET ep == w.calls[c].ep
        w1 == B_finish(w, c, res)
    IN B_drain(CASE ep = EP_LOGIN  -> B_afterLogin(w1, res, data)
                 [] ep = EP_LOGOUT -> B_afterLogout(w1)
                 [] OTHER          -> w1)

InitB ==
    /\ localStorage = [accessToken |-> NoToken, refreshToken |-> "", sportsHubUser |-> ""]
    /\ state = [currentUser |-> "", tokenRefreshTimer |-> 0,
                isRefreshing |-> FALSE, refreshPromise |-> 0]
    /\ timers = {}
    /\ calls = [c \in Slots |-> B_IdleCall]
    /\ view = "auth"
    /\ now = 0
    /\ loggedOut = FALSE
    /\ ev = NoEvent("init")

B_StartCall(op, endpoint, body) ==
    LET w == World(op)
    IN /\ FreeSlots(w) # {}
       /\ LET c == NewSlot(w)
          IN Commit(B_drain(apiRequest([w EXCEPT !.calls[c] = B_IdleCall],
                                       c, endpoint, body, 0)))
       /\ now' = now

\* handleLogin, handleLogout, and any other request of the application
B_Login == view = "auth" /\ B_StartCall("login", EP_LOGIN, "")
B_Logout == view = "app" /\ B_StartCall("logout", EP_LOGOUT, localStorage.refreshToken)
B_ApiCall == view = "app" /\ B_StartCall("api", EP_EVENTS, "")

\* fetch rejects with a TypeError (lines 1536-1548; performTokenRefresh 1418)
B_NetFail(c) ==
    /\ calls[c].pc = "fetch"
    /\ LET w == World("netfail")
       IN IF calls[c].ep = EP_REFRESH
          THEN Commit(performTokenRefresh(w, c, FALSE, NoData))
          ELSE IF calls[c].rc < MAX_RETRY_ATTEMPTS
          THEN Commit([w EXCEPT !.calls[c].pc = "delay"])
          ELSE Commit(B_settle(w, c, R_NETERR, NoData))
    /\ now' = now

\* the RETRY_DELAY timer of call c fires
B_RetryWake(c) ==
    /\ calls[c].pc = "delay"
    /\ LET call == calls[c]
       IN Commit(B_drain(apiRequest(World("retry"), c, call.ep, call.body, call.rc + 1)))
    /\ now' = now

\* 401 or 403 with code TOKEN_EXPIRED (lines 1514-1529)
B_RespondExpired(c) ==
    /\ calls[c].pc = "fetch"
    /\ LET w == World("expired")
           skipAuth == calls[c].ep \in B_publicEndpoints
       IN IF calls[c].ep = EP_REFRESH
          THEN Commit(performTokenRefresh(w, c, FALSE, NoData))
          ELSE IF ~skipAuth /\ calls[c].rc < MAX_RETRY_ATTEMPTS
          THEN Commit(B_drain(refreshTokenIfPossible(w, c, "await")))
          ELSE Commit(B_settle(B_handleAuthExpiry(w), c, B_AUTHREQ, NoData))
    /\ now' = now

\* 401 or 403 without that code
B_RespondDenied(c) ==
    /\ calls[c].pc = "fetch"
    /\ LET w == World("denied")
       IN IF calls[c].ep = EP_REFRESH
          THEN Commit(performTokenRefresh(w, c, FALSE, NoData))
          ELSE Commit(B_settle(B_handleAuthExpiry(w), c, B_AUTHREQ, NoData))
    /\ now' = now

\* any other non-success status, or a body that is not JSON; mentionsFetch:
\* the message of the error contains 'fetch' and the call is retried
B_RespondError(c) ==
    /\ calls[c].pc = "fetch"
    /\ \E mentionsFetch \in BOOLEAN :
          LET w == World("error")
          IN IF calls[c].ep = EP_REFRESH
             THEN ~mentionsFetch /\ Commit(performTokenRefresh(w, c, FALSE, NoData))
             ELSE IF calls[c].rc < MAX_RETRY_ATTEMPTS /\ mentionsFetch
             THEN Commit([w EXCEPT !.calls[c].pc = "delay"])
             ELSE Commit(B_settle(w, c, R_HTTPERR, NoData))
    /\ now' = now

\* success status
B_RespondOk(c) ==
    /\ calls[c].pc = "fetch"
    /\ \E at \in ServerAccessTokens, rt \in LoginRefreshTokens \cup RenewRefreshTokens :
          /\ calls[c].ep = EP_LOGIN => rt \in LoginRefreshTokens
          /\ calls[c].ep = EP_REFRESH => rt \in RenewRefreshTokens
          /\ calls[c].ep \notin {EP_LOGIN, EP_REFRESH} => at = NoToken /\ rt = ""
          /\ LET data == [accessToken |-> at, refreshToken |-> rt,
                          user |-> IF calls[c].ep = EP_LOGIN THEN "u1" ELSE ""]
                 w == World("ok")
             IN IF calls[c].ep = EP_REFRESH
                THEN Commit(performTokenRefresh(w, c, TRUE, data))
                ELSE Commit(B_settle(w, c, R_OK, data))
    /\ now' = now

\* the wake-up armed by scheduleTokenRefresh fires (lines 1352-1354)
B_TimerFire ==
    /\ \E t \in timers :
          /\ now >= t.due
          /\ Commit(B_drain(refreshTokenIfPossible(
                 [World("timer") EXCEPT !.timers = @ \ {t}], 0, "")))
    /\ now' = now

\* the setInterval monitor and the visibilitychange listener (lines 2879-2896)
B_TokenMonitor ==
    /\ LET w == World("monitor")
       IN /\ w.st.currentUser # ""
          /\ getAccessToken(w) = NoToken
          /\ Commit(B_drain(refreshTokenIfPossible(w, 0, "")))
    /\ now' = now

\* init after loadData
init(w) ==
    LET w1 == [w EXCEPT !.st.currentUser = w.ls.sportsHubUser]
    IN IF w1.st.currentUser # "" /\ getAccessToken(w1) # NoToken
       THEN showApp(w1)
       ELSE showAuth(w1)

\* the page is loaded again
B_Reload ==
    /\ LET w == [World("reload") EXCEPT
                    !.st = [currentUser |-> "", tokenRefreshTimer |-> 0,
                            isRefreshing |-> FALSE, refreshPromise |-> 0],
                    !.timers = {},
                    !.calls = [c \in Slots |-> B_IdleCall]]
       IN Commit(init(w))
    /\ now' = now

NextB ==
    \/ B_Login
    \/ B_Logout
    \/ B_ApiCall
    \/ \E c \in Slots : B_NetFail(c)
    \/ \E c \in Slots : B_RetryWake(c)
    \/ \E c \in Slots : B_RespondExpired(c)
    \/ \E c \in Slots : B_RespondDenied(c)
    \/ \E c \in Slots : B_RespondError(c)
    \/ \E c \in Slots : B_RespondOk(c)
    \/ B_TimerFire
    \/ B_TokenMonitor
    \/ Tick
    \/ B_Reload

SpecB == InitB /\ [][NextB]_vars

(***************************************************************************)
(* Properties.                                                             *)
(***************************************************************************)
\* renewal requests that have not resolved / whose network call is outstanding
LiveRenewals == {c \in Slots : calls[c].ep = EP_REFRESH /\ calls[c].pc \in {"fetch", "delay"}}
RenewalNetCalls == {c \in Slots : calls[c].ep = EP_REFRESH /\ calls[c].pc = "fetch"}

\* every call record of the current state: the live ones and those resolved in the last step
Records == {calls[c] : c \in Slots} \cup ev.fin

\* C1: one renewal makes exactly one network call to /api/auth/refresh, and
\* no refreshToken() call made while it is in flight adds another one.
C1_OneNetworkCallPerRenewal ==
    /\ Cardinality(LiveRenewals) <= 1
    /\ \A q \in Records : q.ep = EP_REFRESH /\ q.tf => q.nf <= 1

\* C2: at most one network call to the renewal endpoint is outstanding.
C2_AtMostOneRenewalOutstanding == Cardinality(RenewalNetCalls) <= 1

\* C3: one request invokes the renewal at most once and is replayed at most once.
C3_ReplayOnce == \A q \in Records : q.nr <= 1 /\ q.np <= 1

\* C4: every call of apiService.request eventually resolves.
C4_EveryRequestResolves ==
    \A c \in Slots : \A e \in {EP_LOGIN, EP_EVENTS} :
        [](calls[c].ep = e => <>(calls[c].ep # e))

\* C5 as stated: a request whose every network attempt failed at the transport
\* level resolves after exactly MAX_RETRY_ATTEMPTS + 1 attempts with the error message.
C5_ExactlyFourAttempts ==
    /\ \A c \in Slots : calls[c].tf => calls[c].nf <= MAX_RETRY_ATTEMPTS + 1
    /\ \A q \in ev.fin : q.tf /\ q.nf >= 1 =>
           q.nf = MAX_RETRY_ATTEMPTS + 1 /\ q.res = R_NETERR

\* C5 amended: such a request never makes a fifth attempt; it resolves after
\* exactly four with the error message, or earlier with 'Authentication required.'
\* when it is a non-public request that finds the store without access credential
\* at a retry.
C5_RetryBound ==
    /\ \A c \in Slots : calls[c].tf => calls[c].nf <= MAX_RETRY_ATTEMPTS + 1
    /\ \A q \in ev.fin : q.tf /\ q.nf >= 1 =>
           \/ q.nf = MAX_RETRY_ATTEMPTS + 1 /\ q.res = R_NETERR
           \/ /\ q.nf <= MAX_RETRY_ATTEMPTS
              /\ q.res = R_AUTHREQ
              /\ q.ep \notin publicEndpoints
              /\ localStorage.accessToken = NoToken

C5_Witness ==
    \E q \in ev.fin : q.tf /\ q.nf = MAX_RETRY_ATTEMPTS + 1 /\ q.res = R_NETERR

\* C6: while the in-flight marker is set, exactly one network call to the
\* renewal endpoint is outstanding.
C6_MarkerMeansOneCall == state.isTokenRefreshing => Cardinality(RenewalNetCalls) = 1

\* C7: when a renewal settles the marker is cleared, and every request that
\* was handed a renewal outcome saw the marker cleared at that moment.
C7_MarkerClearedOnSettle ==
    /\ (\E q \in ev.fin : q.ep = EP_REFRESH) => ~state.isTokenRefreshing
    /\ \A q \in Records : q.nr >= 1 /\ q.pc # "await" => ~q.obs

\* a renewal settled in the last step and the request awaiting it was replayed
C7_Witness ==
    /\ \E q \in ev.fin : q.ep = EP_REFRESH /\ q.res = R_OK
    /\ \E c \in Slots : calls[c].pc = "fetch" /\ calls[c].np >= 1 /\ calls[c].rc = 0
    /\ ev.op = "ok"

\* C8: after a logout the store stays empty and no wake-up is armed until
\* the next login.
C8_StoreEmptyAfterLogout ==
    loggedOut => /\ localStorage.accessToken = NoToken
                 /\ localStorage.refreshToken = ""
                 /\ timers = {}

\* C9: at most one wake-up is pending, it is the one the handle names, and
\* it was armed for the credential now in the store.
C9_OneTimer ==
    /\ Cardinality(timers) <= 1
    /\ \A t \in timers :
          /\ t.id = state.tokenRefreshTimer
          /\ getTokenPayload(localStorage.accessToken).ok
          /\ t.due = getTokenPayload(localStorage.accessToken).exp * 1000 - TOKEN_EXPIRY_BUFFER

\* a wake-up was armed while the previous one was still pending
C9_Witness ==
    /\ ev.sched # << >>
    /\ ev.sched[1].pending = 1
    /\ timers # {}

EmptyStore == [accessToken |-> NoToken, refreshToken |-> "", sportsHubUser |-> ""]

\* C11: a renewal that resolves to true has persisted the well-formed access
\* credential of its response; one that resolves to false has ended the session
\* (handleAuthExpiry ran: store empty, no wake-up pending, login view).
C11_TrueOnlyIfPersisted ==
    \A i \in DOMAIN ev.ren :
        IF ev.ren[i].ok
        THEN /\ isValidTokenFormat(ev.ren[i].at)
             /\ ev.ren[i].ls.accessToken = ev.ren[i].at
        ELSE /\ ev.ren[i].term
             /\ ev.ren[i].ls = EmptyStore
             /\ ev.ren[i].timers = {}
             /\ ev.ren[i].view = "auth"

\* C12: a refreshToken() that finds no refresh credential issues no network
\* call, ends with the store empty, no wake-up pending and the login view
\* requested, and a request awaiting it gets the falsy outcome.
C12_NoRefreshCredential ==
    /\ \A i \in DOMAIN ev.norc :
          /\ ev.norc[i].ls = EmptyStore
          /\ ev.norc[i].timers = {}
          /\ ev.norc[i].view = "auth"
          /\ ev.norc[i].sent = {}
    /\ ev.norc # << >> /\ ev.op = "expired" =>
          /\ ev.sent = {}
          /\ \E q \in ev.fin : q.res = R_EXPIRED /\ q.nr >= 1

\* the wake-up of a session without refresh credential fired
C12_Witness ==
    /\ ev.norc # << >>
    /\ ev.op = "timer"
    /\ ev.nrt = 1

\* C13: when a renewal resolves to true the store holds the access credential
\* of its response and the scheduler is armed for it: one wake-up at its expiry
\* minus the buffer, or a refreshToken() call at once.
C13_RenewalRearms ==
    \A i \in DOMAIN ev.ren : ev.ren[i].ok =>
        LET payload == getTokenPayload(ev.ren[i].at)
            wakeAt == payload.exp * 1000 - TOKEN_EXPIRY_BUFFER
        IN /\ ev.ren[i].ls.accessToken = ev.ren[i].at
           /\ ev.sched # << >>
           /\ ev.sched[1].token = ev.ren[i].at
           /\ payload.ok /\ payload.exp # 0 =>
                 IF wakeAt > now
                 THEN \E t \in ev.ren[i].timers : ev.ren[i].timers = {t} /\ t.due = wakeAt
                 ELSE ev.nrt >= 1

\* C14: after a renewal that resolved to true every request that awaited it is
\* replayed over the network, and the replay carries the access credential of
\* the renewal response.
C14_ReplayCarriesRenewed ==
    \A i \in DOMAIN ev.ren : ev.ren[i].ok =>
        /\ \A s \in ev.sent : s.ep \notin publicEndpoints => s.auth = ev.ren[i].at
        /\ \A q \in ev.fin : q.ep \notin publicEndpoints => q.res # R_AUTHREQ

\* C15: a request that returns 'Session expired.' returns it in the step in
\* which the renewal outcome arrived, no network call is issued in that step,
\* and the session has been ended: store empty, no wake-up pending.
C15_SessionExpired ==
    \A q \in ev.fin : q.res = R_EXPIRED =>
        /\ ev.term
        /\ localStorage = EmptyStore
        /\ timers = {}
        /\ ev.sent = {}
        /\ q.ep \notin publicEndpoints

\* a renewal failed and the request that awaited it returned 'Session expired.'
C15_Witness ==
    /\ ev.ren # << >>
    /\ ~ev.ren[1].ok
    /\ \E q \in ev.fin : q.res = R_EXPIRED /\ q.ep = EP_EVENTS /\ q.nr = 1

\* C16: a request to /api/events that finds no access credential returns
\* 'Authentication required.' in the same step without a network call, without
\* a refreshToken() call and without a change of store, timer, marker or view.
C16_AuthenticationRequired ==
    [][ (/\ ev'.op \in {"api", "retry"}
         /\ \E q \in ev'.fin : q.ep = EP_EVENTS /\ q.res = R_AUTHREQ)
        => /\ UNCHANGED <<localStorage, state, timers, view>>
           /\ ev'.sent = {}
           /\ ev'.nrt = 0
           /\ ~ev'.term
           /\ \A c \in Slots : calls'[c].pc \in {"idle", calls[c].pc} ]_vars

\* the application view is shown without access credential and a request is made
C16_Witness ==
    /\ ev.op = "api"
    /\ \E q \in ev.fin : q.ep = EP_EVENTS /\ q.res = R_AUTHREQ /\ q.nf = 0
    /\ view = "app"

\* C18: a call to /api/login, /api/register or /api/auth/refresh never carries the stored
\* access credential, never returns 'Authentication required.', and never
\* invokes or awaits refreshToken().
C18_PublicEndpoints ==
    /\ \A s \in ev.sent : s.ep \in {EP_LOGIN, EP_REGISTER, EP_REFRESH} => s.auth = NoToken
    /\ \A q \in Records : q.ep \in {EP_LOGIN, EP_REGISTER, EP_REFRESH} =>
          /\ q.res # R_AUTHREQ
          /\ q.res # R_EXPIRED
          /\ q.nr = 0
          /\ q.pc # "await"

\* the renewal call was answered 401 TOKEN_EXPIRED and resolved as an HTTP failure
C18_Witness ==
    /\ ev.op = "expired"
    /\ \E q \in ev.fin : q.ep = EP_REFRESH /\ q.res = R_HTTPERR
    /\ ev.nrt = 0

\* C19: a step in which a call to /api/events fails at the transport level, is
\* retried, or resolves on a response other than 401 TOKEN_EXPIRED leaves
\* store, timer, marker and view unchanged and does not end the session; a
\* non-success status resolves to the HTTP failure result.
C19_RequestFrame ==
    [][ \A c \in Slots :
          (/\ calls[c].ep = EP_EVENTS
           /\ calls[c].pc \in {"fetch", "delay"}
           /\ calls'[c] # calls[c]
           /\ ev'.op \in {"netfail", "retry", "error", "ok"})
          => /\ UNCHANGED <<localStorage, state, timers, view>>
             /\ ~ev'.term
             /\ ev'.nrt = 0
             /\ ev'.op = "error" => \E q \in ev'.fin : q.ep = EP_EVENTS /\ q.res = R_HTTPERR ]_vars

\* a call to /api/events resolved with an HTTP failure while a session is on
C19_Witness ==
    /\ ev.op = "error"
    /\ \E q \in ev.fin : q.ep = EP_EVENTS /\ q.res = R_HTTPERR
    /\ localStorage.accessToken # NoToken
    /\ timers # {}

\* C17: in the function-based implementation every fetch to a non-public
\* endpoint carries an Authorization header with an access credential.
C17_AlwaysAuthorized ==
    \A s \in ev.sent : s.ep \notin B_publicEndpoints => s.auth # NoToken

\* C20: in the function-based implementation a 401 or 403 response without the
\* code TOKEN_EXPIRED to a call other than the renewal call does not end the
\* session and invokes no renewal.
C20_DeniedIsNotExpiry ==
    (ev.op = "denied" /\ \A q \in ev.fin : q.ep # EP_REFRESH) =>
        /\ ~ev.term
        /\ ev.nrt = 0

\* C21: right after handleAuthExpiry and right after the teardown of
\* handleLogout the three store keys are absent, no wake-up is pending and the
\* in-flight marker is cleared; no wake-up armed before the session end is left
\* that could fire afterwards.
C21_SessionEndClears ==
    \A e \in ev.ended :
        /\ e.ls = EmptyStore
        /\ e.timers = {}
        /\ ~e.st.isTokenRefreshing

\* handleAuthExpiry ended a session whose wake-up was pending
C21_Witness ==
    /\ ev.term
    /\ \E e \in ev.ended : e.pending = 1 /\ e.timers = {}

\* the program state of a world, without the history
Program(w) == [ls |-> w.ls, st |-> w.st, timers |-> w.timers, view |-> w.view]

\* C22: from every reachable state, and from the state every session end
\* left, running clearData or handleAuthExpiry a second time leaves the state
\* the first run left: store empty, no wake-up pending, marker cleared.
C22_SessionEndIdempotent ==
    /\ LET w == World("")
           once == clearData(w)
           expired == handleAuthExpiry(w)
       IN /\ Program(clearData(once)) = Program(once)
          /\ Program(handleAuthExpiry(expired)) = Program(expired)
          /\ Program(clearData(expired)) = Program(expired)
          /\ \A x \in {once, expired} :
                x.ls = EmptyStore /\ x.timers = {} /\ ~x.st.isTokenRefreshing
    /\ \A e \in ev.ended :
          LET w == [World("") EXCEPT !.ls = e.ls, !.st = e.st, !.timers = e.timers,
                                     !.view = e.view]
          IN /\ Program(clearData(w)) = Program(w)
             /\ Program(handleAuthExpiry(w)) = Program(w)

\* a logout completed and its teardown cancelled a pending wake-up
C22_Witness ==
    /\ loggedOut
    /\ ev.op \in {"ok", "error", "netfail"}
    /\ \E e \in ev.ended : e.pending = 1 /\ e.view = "auth"

\* the session state of the spec, read off the program state
SessionState ==
    IF state.isTokenRefreshing THEN "Renewing"
    ELSE IF localStorage.accessToken # NoToken THEN "LoggedIn"
    ELSE "LoggedOut"

\* what the step that produced the history e did
LoginSucceeded(e) == e.op = "ok" /\ \E q \in e.fin : q.ep = EP_LOGIN /\ q.res = R_OK
LogoutDone(e) == \E q \in e.fin : q.ep = EP_LOGOUT
RenewalStarted(e) == e.nrt >= 1 /\ \E s \in e.sent : s.ep = EP_REFRESH
RenewalSucceeded(e) == e.ren # << >> /\ e.ren[1].ok
RenewalFailed(e) == e.ren # << >> /\ ~e.ren[1].ok

\* C23: apart from a page load, the session state changes only along the
\* listed transitions: it leaves LoggedOut, and a renewal call is started from
\* LoggedOut, only in the step of a successful login; LoggedIn becomes Renewing
\* only by a wake-up or a 401 TOKEN_EXPIRED; Renewing becomes LoggedIn only on
\* renewal success and LoggedOut only on renewal failure or logout; LoggedIn
\* becomes LoggedOut only by logout or session termination.
C23_SessionTransitions ==
    [][ ev'.op # "reload" =>
          LET from == SessionState
              to == SessionState'
          IN /\ (from = "LoggedOut" /\ (to # "LoggedOut" \/ RenewalStarted(ev')))
                    => LoginSucceeded(ev')
             /\ (from = "LoggedIn" /\ to = "Renewing")
                    => ev'.op \in {"timer", "expired"} \/ LoginSucceeded(ev')
             /\ (from = "Renewing" /\ to = "LoggedIn") => RenewalSucceeded(ev')
             /\ (from = "Renewing" /\ to = "LoggedOut")
                    => RenewalFailed(ev') \/ LogoutDone(ev') \/ ev'.term
             /\ (from = "LoggedIn" /\ to = "LoggedOut") => LogoutDone(ev') \/ ev'.term
      ]_vars

\* C24: no fetch to an endpoint other than /api/auth/refresh carries the
\* refresh credential, neither in its body nor in its Authorization header.
C24_RefreshCredentialOnlyToRenewal ==
    \A s \in ev.sent : s.ep # EP_REFRESH => s.body = ""

\* C25: when a renewal succeeds and its response supplies no refresh
\* credential, the stored refresh credential after the .then handler is the
\* one stored before; whenever a successful renewal changes it, the new value
\* is the refresh credential the response supplied.
C25_RefreshCredentialKept ==
    [][ RenewalSucceeded(ev') =>
          LET before == localStorage.refreshToken
              after == ev'.ren[1].ls.refreshToken
          IN /\ ev'.ren[1].rt = "" => after = before
             /\ after # before => ev'.ren[1].rt # "" /\ after = ev'.ren[1].rt
      ]_vars

\* a renewal stored a new access credential and kept the refresh credential
\* of the login
C25_Witness ==
    /\ RenewalSucceeded(ev)
    /\ ev.ren[1].rt = ""
    /\ ev.ren[1].ls.refreshToken = "r1"
    /\ ev.ren[1].ls.accessToken = ev.ren[1].at
    /\ ev.ren[1].at = T300

\* C26: when handleLogin has received a success result and shown the
\* application view, the store holds the access credential, the refresh
\* credential and the user profile of the response and scheduleTokenRefresh was
\* called for that access credential; the application view is never shown
\* while the store holds no access credential.
C26_LoginStartsSession ==
    /\ view = "app" => localStorage.accessToken # NoToken
    /\ \A i \in DOMAIN ev.got :
          /\ localStorage.accessToken = ev.got[i].accessToken
          /\ localStorage.refreshToken = ev.got[i].refreshToken
          /\ localStorage.sportsHubUser = ev.got[i].user
          /\ ev.sched # << >>
          /\ ev.sched[1].token = ev.got[i].accessToken

\* C27: in the function-based implementation a scheduleTokenRefresh call with
\* a credential whose expiry minus the buffer is not in the future invokes
\* refreshTokenIfPossible in the same step and leaves no wake-up pending.
C27_ImmediateRenewal ==
    ev.sched # << >> =>
        LET payload == getTokenPayload(ev.sched[1].token)
            wakeAt == payload.exp * 1000 - TOKEN_EXPIRY_BUFFER
        IN (payload.ok /\ payload.exp # 0 /\ wakeAt <= now) =>
              /\ ev.nrt >= 1
              /\ timers = {}

\* C28: a step in which authService.scheduleTokenRefresh is called with a
\* credential that does not decode, or whose payload has no exp, ends with
\* no wake-up pending (the previous one is cancelled, none is armed) and
\* without any refreshToken() call.
C28_UndecodableNotScheduled ==
    ev.sched # << >> =>
        LET payload == getTokenPayload(ev.sched[1].token)
        IN (~payload.ok \/ payload.exp = 0) =>
              /\ timers = {}
              /\ ev.nrt = 0
              /\ \A s \in ev.sent : s.ep # EP_REFRESH

\* a renewal stored a credential that cannot be decoded while the wake-up of
\* the previous one was pending
C28_Witness ==
    /\ ev.sched # << >>
    /\ ev.sched[1].token \in {TGarbage, TNoExp}
    /\ ev.sched[1].pending = 1
    /\ timers = {}
    /\ localStorage.accessToken = ev.sched[1].token

(***************************************************************************)
(* authService.getTokenPayload on credentials spelled out character by     *)
(* character (lines 167-184).  Above, a credential is the sequence of its  *)
(* segments and the decoding of the middle segment is a table; here a      *)
(* credential is a string, a sequence of character codes, and split, atob  *)
(* and JSON.parse are computed.  Character codes: 0..63 are the characters *)
(* of the base64 alphabet in the order of their values (A-Z a-z 0-9 + /),  *)
(* the others are named below.  A byte is a number 0..255; the string atob *)
(* returns has one character per byte.  Definitions whose source name is   *)
(* taken above carry the prefix Str_.                                      *)
(***************************************************************************)
MaxText == 3        \* length of the payload texts enumerated in full

CH_MINUS == 64      \* '-', stands for the value 62 in base64url
CH_UNDER == 65      \* '_', stands for the value 63 in base64url
CH_DOT   == 66      \* '.'
CH_BANG  == 67      \* '!', a character of neither alphabet

\* the bytes the payload texts are made of: " 1 : ? { }
ByteAlphabet == {34, 49, 58, 63, 123, 125}

SubSeqFrom(s, i) == SubSeq(s, i, Len(s))

\* String.prototype.split('.')
RECURSIVE split(_)
split(s) ==
    IF \A i \in 1..Len(s) : s[i] # CH_DOT THEN <<s>>
    ELSE LET k == CHOOSE i \in 1..Len(s) :
                     s[i] = CH_DOT /\ \A j \in 1..(i - 1) : s[j] # CH_DOT
         IN <<SubSeq(s, 1, k - 1)>> \o split(SubSeqFrom(s, k + 1))

\* the bytes coded by a run of 6-bit values (a last group of 2 or 3 values
\* codes 1 or 2 bytes, the remaining bits are dropped)
RECURSIVE BytesOf(_)
BytesOf(v) ==
    CASE Len(v) = 0 -> << >>
      [] Len(v) = 2 -> <<(v[1] * 64 + v[2]) \div 16>>
      [] Len(v) = 3 -> LET n == v[1] * 4096 + v[2] * 64 + v[3]
                       IN <<n \div 1024, (n \div 4) % 256>>
      [] OTHER      -> LET n == v[1] * 262144 + v[2] * 4096 + v[3] * 64 + v[4]
                       IN <<n \div 65536, (n \div 256) % 256, n % 256>>
                          \o BytesOf(SubSeqFrom(v, 5))

\* window.atob (forgiving-base64 decode of an unpadded string): ok = FALSE
\* stands for the InvalidCharacterError
atob(s) ==
    IF (\E i \in 1..Len(s) : s[i] \notin 0..63) \/ Len(s) % 4 = 1
    THEN [ok |-> FALSE, bytes |-> << >>]
    ELSE [ok |-> TRUE, bytes |-> BytesOf(s)]

\* JSON.parse on the texts that can be written with ByteAlphabet: a number,
\* a string without escapes, {} or an object with one member whose value is
\* a number or a string; ok = FALSE stands for the SyntaxError, the value
\* parsed is identified by its text
IsJsonNumber(b) ==
    /\ Len(b) >= 1
    /\ \A i \in 1..Len(b) : b[i] \in 48..57
    /\ Len(b) > 1 => b[1] # 48

IsJsonString(b) ==
    /\ Len(b) >= 2
    /\ b[1] = 34 /\ b[Len(b)] = 34
    /\ \A i \in 2..(Len(b) - 1) : b[i] # 34 /\ b[i] # 92 /\ b[i] >= 32

IsJsonScalar(b) == IsJsonNumber(b) \/ IsJsonString(b)

IsJsonObject(b) ==
    /\ Len(b) >= 2
    /\ b[1] = 123 /\ b[Len(b)] = 125
    /\ \/ Len(b) = 2
       \/ \E k \in 3..(Len(b) - 2) :
             /\ IsJsonString(SubSeq(b, 2, k))
             /\ b[k + 1] = 58
             /\ IsJsonScalar(SubSeq(b, k + 2, Len(b) - 1))

JSON_parse(b) ==
    IF IsJsonScalar(b) \/ IsJsonObject(b) THEN [ok |-> TRUE, value |-> b]
    ELSE [ok |-> FALSE, value |-> << >>]

Null == [ok |-> FALSE, value |-> << >>]

\* token && typeof token === 'string' && token.split('.').length === 3
Str_isValidTokenFormat(token) == token # << >> /\ Len(split(token)) = 3

\* try { ... JSON.parse(atob(token.split('.')[1])) } catch { return null }
Str_getTokenPayload(token) ==
    IF ~Str_isValidTokenFormat(token) THEN Null
    ELSE LET decoded == atob(split(token)[2])
         IN IF ~decoded.ok THEN Null ELSE JSON_parse(decoded.bytes)

(***************************************************************************)
(* The credentials the function is applied to.  An issuer codes the bytes  *)
(* of the payload text in base64url without padding (RFC 7515); the same   *)
(* bytes in the base64 alphabet, credentials with a segment missing or     *)
(* added and credentials with a foreign character are inputs too.          *)
(***************************************************************************)
RECURSIVE ValuesOf(_)
ValuesOf(b) ==
    CASE Len(b) = 0 -> << >>
      [] Len(b) = 1 -> <<b[1] \div 4, (b[1] % 4) * 16>>
      [] Len(b) = 2 -> LET n == (b[1] * 256 + b[2]) * 4
                       IN <<n \div 4096, (n \div 64) % 64, n % 64>>
      [] OTHER      -> LET n == b[1] * 65536 + b[2] * 256 + b[3]
                       IN <<n \div 262144, (n \div 4096) % 64, (n \div 64) % 64, n % 64>>
                          \o ValuesOf(SubSeqFrom(b, 4))

Base64(b) == ValuesOf(b)

Base64Url(b) ==
    LET v == ValuesOf(b)
    IN [i \in 1..Len(v) |-> CASE v[i] = 62 -> CH_MINUS [] v[i] = 63 -> CH_UNDER
                              [] OTHER -> v[i]]

\* the reading of a base64url segment by its definition
Base64UrlDecode(s) ==
    IF (\E i \in 1..Len(s) : s[i] \notin (0..61) \cup {CH_MINUS, CH_UNDER})
       \/ Len(s) % 4 = 1
    THEN [ok |-> FALSE, bytes |-> << >>]
    ELSE [ok |-> TRUE,
          bytes |-> BytesOf([i \in 1..Len(s) |->
                                CASE s[i] = CH_MINUS -> 62 [] s[i] = CH_UNDER -> 63
                                  [] OTHER -> s[i]])]

RECURSIVE TextsUpTo(_)
TextsUpTo(n) ==
    IF n = 0 THEN {<< >>}
    ELSE LET shorter == TextsUpTo(n - 1)
         IN shorter \cup {Append(t, b) : t \in shorter, b \in ByteAlphabet}

\* {"?":1}  {"1":1}  {"1":"?"}
LongTexts ==
    { <<123, 34, 63, 34, 58, 49, 125>>,
      <<123, 34, 49, 34, 58, 49, 125>>,
      <<123, 34, 49, 34, 58, 34, 63, 34, 125>> }

PayloadTexts == TextsUpTo(MaxText) \cup LongTexts

HEADER == <<7>>
SIGNATURE == <<18>>

Credentials ==
    LET Dot == <<CH_DOT>>
    IN UNION { { HEADER \o Dot \o Base64Url(t) \o Dot \o SIGNATURE,
                 HEADER \o Dot \o Base64(t) \o Dot \o SIGNATURE,
                 HEADER \o Dot \o Base64Url(t) \o <<CH_BANG>> \o Dot \o SIGNATURE,
                 Base64Url(t) \o Dot \o SIGNATURE,
                 HEADER \o Dot \o Base64Url(t) \o Dot \o SIGNATURE \o Dot \o SIGNATURE,
                 Base64Url(t) } : t \in PayloadTexts }

\* the store holds some credential
InitDecode ==
    /\ \E token \in Credentials :
          localStorage = [accessToken |-> token, refreshToken |-> "", sportsHubUser |-> ""]
    /\ state = [currentUser |-> "", isTokenRefreshing |-> FALSE,
                tokenRefreshPromise |-> 0, tokenRefreshTimer |-> 0]
    /\ timers = {}
    /\ calls = [c \in Slots |-> IdleCall]
    /\ view = "auth"
    /\ now = 0
    /\ loggedOut = FALSE
    /\ ev = [op |-> "init", payload |-> Null]

\* getTokenPayload is called with the stored credential (as main does through
\* scheduleTokenRefresh, lines 1173-1176)
DecodeStored ==
    /\ ev.op = "init"
    /\ ev' = [op |-> "decode", payload |-> Str_getTokenPayload(localStorage.accessToken)]
    /\ UNCHANGED <<localStorage, state, timers, calls, view, now, loggedOut>>

NextDecode == DecodeStored

SpecDecode == InitDecode /\ [][NextDecode]_vars

\* C29: getTokenPayload returns the decoded payload for every credential of
\* three dot-separated segments whose middle segment is the base64url coding
\* of a JSON text, and null for every credential that does not have exactly
\* three segments or whose middle segment codes a JSON text in neither
\* alphabet.
C29_PayloadOrNull ==
    ev.op = "decode" =>
        LET segs == split(localStorage.accessToken)
            url == Base64UrlDecode(segs[2])
            std == atob(segs[2])
        IN IF Len(segs) = 3 /\ url.ok /\ JSON_parse(url.bytes).ok
           THEN ev.payload = JSON_parse(url.bytes)
           ELSE (Len(segs) # 3 \/ ~std.ok \/ ~JSON_parse(std.bytes).ok)
                    => ev.payload = Null

\* C30: when a renewal that was outstanding at a logout settles after a
\* later login has started a new session, the step leaves the store, the
\* in-flight marker and the shared promise as they were and does not run
\* handleAuthExpiry.
C30_StaleRenewalIsInert ==
    [][ (/\ \E q \in ev'.fin : q.ep = EP_REFRESH /\ q.old
         /\ ~loggedOut
         /\ localStorage.accessToken # NoToken)
        => /\ localStorage' = localStorage
           /\ ~ev'.term
           /\ state'.isTokenRefreshing = state.isTokenRefreshing
           /\ state'.tokenRefreshPromise = state.tokenRefreshPromise ]_vars

\* the credential is decodable and its expiry minus the buffer is not in the future
WithinBuffer(token) ==
    LET payload == getTokenPayload(token)
    IN /\ payload.ok
       /\ payload.exp # 0
       /\ payload.exp * 1000 - TOKEN_EXPIRY_BUFFER <= now

\* C31: a step in which a renewal succeeds with an access credential that is
\* already within the buffer issues no fetch to /api/auth/refresh: the
\* refreshToken() call made by scheduleTokenRefresh joins the renewal still
\* marked in flight; no wake-up is pending when the promise resolves or at the
\* end of the step.
C31_NoRenewLoop ==
    (RenewalSucceeded(ev) /\ isValidTokenFormat(ev.ren[1].at) /\ WithinBuffer(ev.ren[1].at)) =>
        /\ \A s \in ev.sent : s.ep # EP_REFRESH
        /\ ev.nrt = 1
        /\ ev.ren[1].timers = {}
        /\ timers = {}

\* C32: between tasks the in-flight marker is set exactly when the shared
\* promise is non-null, and every request awaiting a renewal outcome awaits
\* the promise of a renewal call that has not settled.
C32_MarkerIffPromise ==
    /\ state.isTokenRefreshing <=> state.tokenRefreshPromise # 0
    /\ \A c \in Slots : calls[c].pc = "await" =>
          /\ calls[c].aw \in Slots
          /\ calls[calls[c].aw].ep = EP_REFRESH
          /\ calls[calls[c].aw].pc \in {"fetch", "delay"}

\* a request answered 401 TOKEN_EXPIRED found the marker set and joined the
\* renewal in flight
C32_Witness ==
    /\ ev.op = "expired"
    /\ ev.nrt = 1
    /\ ev.sent = {}
    /\ state.isTokenRefreshing
    /\ \E c \in Slots : calls[c].pc = "await" /\ calls[c].aw = state.tokenRefreshPromise

\* C33: whenever a refresh wake-up is pending, the store holds an access
\* credential.
C33_TimerImpliesCredential ==
    timers # {} => localStorage.accessToken # NoToken

\* main found a stored session at a page load and armed the wake-up for it
C33_Witness ==
    /\ ev.op = "reload"
    /\ timers # {}
    /\ localStorage.accessToken = T300
    /\ view = "app"

\* C34: in the function-based implementation a top-level apiRequest call
\* issues at most MAX_RETRY_ATTEMPTS + 1 fetches to its endpoint, its
\* retryCount never exceeds MAX_RETRY_ATTEMPTS, it starts at most
\* MAX_RETRY_ATTEMPTS renewals, and a TOKEN_EXPIRED response received at
\* retryCount = MAX_RETRY_ATTEMPTS ends the session and the call.
C34_BoundedRequest ==
    /\ \A q \in Records : q.ep # EP_REFRESH =>
          /\ q.nn <= MAX_RETRY_ATTEMPTS + 1
          /\ q.rc <= MAX_RETRY_ATTEMPTS
          /\ q.nr <= MAX_RETRY_ATTEMPTS
    /\ ev.op = "expired" =>
          \A q \in ev.fin : q.ep \notin B_publicEndpoints /\ q.rc = MAX_RETRY_ATTEMPTS =>
              ev.term /\ q.res = B_AUTHREQ

====
